---- MODULE Spec2Model ----
(***************************************************************************)
(* The user routes of the blogging backend (routes/userRoutes.js, mounted  *)
(* at /api/users by the application's index.js), with the collaborators    *)
(* they call: the validators, the authorization middleware, the user       *)
(* controller over the credential store, bcrypt and jsonwebtoken.          *)
(*                                                                         *)
(* One action is one request handled from the first middleware to the      *)
(* response.  `last` is an observation of the request handled last: what   *)
(* was asked, which controller calls ran, and what the client received.    *)
(***************************************************************************)
EXTENDS Integers, Sequences, FiniteSets, TLC

\* ------------------------------------------------------------- bounds
MaxUsers == 2          \* ids the store hands out: 1..MaxUsers
MaxTime == 2           \* the clock runs 0..MaxTime

\* ---------------------------------------------------------- constants
saltRounds == 10       \* const saltRounds = 10
ExpiresIn == 2         \* expiresIn: "1h", the clock ticking in half hours

Absent == "absent"     \* JavaScript's undefined: a field or variable not set
Emails == {"a@x.io", "b@x.io"}
BadEmail == "not-an-email"
Passwords == {"pw1"}        \* what users register with
WrongPassword == "pw2"      \* what nobody registered with
Names == {"ann"}
Salts == {"s1"}
Secrets == {"k1", Absent}

VARIABLES phase, secret, dbUp, users, nextId, now, session, last

vars == <<phase, secret, dbUp, users, nextId, now, session, last>>

\* ------------------------------------------------------------- values
NoPassword == [alg |-> "none", rounds |-> 0, text |-> Absent, salt |-> Absent]
NoUser == [id |-> 0, name |-> Absent, email |-> Absent, password |-> NoPassword]
Mac(key, id, exp) == <<key, id, exp>>
NoToken == [id |-> 0, exp |-> 0, sig |-> Mac(Absent, 0, 0)]
NoRequest == [id |-> 0, name |-> Absent, email |-> Absent, password |-> Absent,
              token |-> NoToken]

\* A string the client sent, as the store holds it when nobody hashed it.
Raw(text) == [alg |-> "plain", rounds |-> 0, text |-> text, salt |-> Absent]

\* ----------------------------------------------------- Password Hasher
\* bcrypt.hashSync(plaintext, saltRounds): a fresh salt per call, baked
\* into the output together with the cost.
hashSync(plaintext, salt) ==
    [alg |-> "bcrypt", rounds |-> saltRounds, text |-> plaintext, salt |-> salt]

\* bcrypt.compareSync(plaintext, stored): recomputes with the salt of
\* `stored`; a stored value that is no bcrypt hash compares false.
compareSync(plaintext, stored) ==
    stored.alg = "bcrypt" /\ stored.text = plaintext

\* --------------------------------------------- Token Issuer / Verifier
\* Variant: the same call with expiresIn: "2h".
IssueTwoHours(uid) ==
    [id |-> uid, exp |-> now + ExpiresIn + ExpiresIn,
     sig |-> Mac(secret, uid, now + ExpiresIn + ExpiresIn)]
\* jwt.sign({ id: user.id }, process.env.JWT_SECRET, { expiresIn: "1h" })
Issue(uid) ==
    [id |-> uid, exp |-> now + ExpiresIn, sig |-> Mac(secret, uid, now + ExpiresIn)]

\* jwt.verify(token, secret) at time t: the signature recomputed over the
\* claim with the secret, and t before the expiration.
Verify(tok, t) ==
    LET ok == /\ secret # Absent
              /\ tok.sig = Mac(secret, tok.id, tok.exp)
              /\ t < tok.exp
    IN [ok |-> ok, id |-> IF ok THEN tok.id ELSE 0]

\* ------------------------------------------------------------ validators
\* Each rule that fails adds one descriptor, in rule order.
Rule(failed, field) == IF failed THEN <<field>> ELSE <<>>
idParamValidator(req) == Rule(req.id < 1, "id")
userValidator(req) ==
    Rule(req.name = Absent, "name")
    \o Rule(req.email \notin Emails, "email")
    \o Rule(req.password = Absent, "password")
userUpdateValidator(req) == idParamValidator(req) \o userValidator(req)
userLoginValidator(req) ==
    Rule(req.email \notin Emails, "email") \o Rule(req.password = Absent, "password")

\* ------------------------------------------------------- userController
getUsers == users
getUser(id) ==
    IF \E u \in users : u.id = id THEN CHOOSE u \in users : u.id = id ELSE NoUser
getUserByEmail(email) ==
    IF \E u \in users : u.email = email
    THEN CHOOSE u \in users : u.email = email
    ELSE NoUser
\* The store keeps emails unique: an insert or update that would repeat one
\* is refused by the persistence layer, which throws.
EmailTaken(email, exceptId) == \E u \in users : u.email = email /\ u.id # exceptId
createUser(user) ==
    LET row == [id |-> nextId, name |-> user.name, email |-> user.email,
                password |-> user.password]
    IN [data |-> row, store |-> users \cup {row}]
\* Model.update(body, where id): <<affected rows>> and the store after it.
updateUser(id, body) ==
    LET hit == {u \in users : u.id = id}
        row == [id |-> id, name |-> body.name, email |-> body.email,
                password |-> body.password]
    IN [data |-> <<Cardinality(hit)>>,
        store |-> IF hit = {} THEN users ELSE (users \ hit) \cup {row}]
\* Model.destroy(where id): the number of rows removed and the store after it.
deleteUser(id) ==
    LET hit == {u \in users : u.id = id}
    IN [data |-> Cardinality(hit), store |-> users \ hit]

\* -------------------------------------------------------------- responses
\* What a handler hands back: the response (status 0: none was sent), the
\* controller calls it made, and the store it leaves.
Out(status, errors, token, exposed, calls, auth, threw, store) ==
    [status |-> status, errors |-> errors, token |-> token, exposed |-> exposed,
     calls |-> calls, auth |-> auth, threw |-> threw, store |-> store]

\* res.status(422).json({errors: errors.array()})
Invalid(errors) == Out(422, errors, NoToken, {}, <<>>, "None", FALSE, users)
\* res.sendStatus(404)
NotFound(calls, store) ==
    Out(404, <<>>, NoToken, {}, calls, "None", FALSE, store)
\* app.use(handleAllOtherErrors): any uncaught failure becomes a 500.
handleAllOtherErrors(calls, auth) ==
    Out(500, <<"Internal Server Error">>, NoToken, {}, calls, auth, TRUE, users)
\* app.use(handleUnauthorized): a request the middleware rejected gets 401.
handleUnauthorized ==
    Out(401, <<"Unauthorized">>, NoToken, {}, <<>>, "Rejected", FALSE, users)
\* catch(err){ next(err); } in a handler declared (req, res, next).
CatchWithNext(calls, auth) == handleAllOtherErrors(calls, auth)
\* catch(err){ next(err); } in a handler declared (req, res): `next` is not
\* defined there, so the catch itself throws a ReferenceError.  The router
\* does not look at the promise the async handler returned: the rejection is
\* unhandled and nothing is sent.
CatchWithoutNext(calls, auth) ==
    Out(0, <<>>, NoToken, {}, calls, auth, TRUE, users)

\* ------------------------------------------------------------ middleware
\* The middleware each route names before its handler.
\* Variant: GET / without verifyToken.
GetUsersChainOpen == <<>>
GetUsersChain == <<"verifyToken">>
GetUserChain == <<"idParamValidator">>
CreateUserChain == <<"userValidator">>
LoginChain == <<"userLoginValidator">>
UpdateUserChain == <<"userUpdateValidator">>
DeleteUserChain == <<"idParamValidator">>

Has(chain, name) == \E i \in 1..Len(chain) : chain[i] = name
\* verifyToken: no token, or one verify rejects, ends the request Rejected;
\* otherwise the request goes on Authenticated.  A route that does not name
\* the middleware lets every request through, unauthenticated.
Authorize(chain, req) ==
    IF ~Has(chain, "verifyToken") THEN "None"
    ELSE IF req.token = NoToken \/ ~Verify(req.token, now).ok THEN "Rejected"
    ELSE "Authenticated"
\* validationResult(req): the errors the validators of the chain recorded.
validationResult(chain, req) ==
    (IF Has(chain, "idParamValidator") THEN idParamValidator(req) ELSE <<>>)
    \o (IF Has(chain, "userValidator") THEN userValidator(req) ELSE <<>>)
    \o (IF Has(chain, "userUpdateValidator") THEN userUpdateValidator(req) ELSE <<>>)
    \o (IF Has(chain, "userLoginValidator") THEN userLoginValidator(req) ELSE <<>>)

\* ----------------------------------------------------------------- routes
\* router.get("/", verifyToken, async (req, res) => ...)
GetUsersRoute(req, dbFails) ==
    LET auth == Authorize(GetUsersChain, req)
    IN IF auth = "Rejected" THEN handleUnauthorized
       ELSE IF dbFails THEN CatchWithoutNext(<<"getUsers">>, auth)
       ELSE Out(200, <<>>, NoToken, getUsers, <<"getUsers">>, auth, FALSE,
                users)

\* router.get("/:id", idParamValidator, async (req, res) => ...)
GetUserRoute(req, dbFails) ==
    LET errors == validationResult(GetUserChain, req)
        data == getUser(req.id)
    IN IF errors # <<>> THEN Invalid(errors)
       ELSE IF dbFails THEN CatchWithoutNext(<<"getUser">>, "None")
       ELSE IF data = NoUser THEN NotFound(<<"getUser">>, users)
       ELSE Out(200, <<>>, NoToken, {data}, <<"getUser">>, "None", FALSE,
                users)

\* router.post("/", userValidator, async (req, res, next) => ...)
CreateUserRoute(req, salt, dbFails) ==
    LET errors == validationResult(CreateUserChain, req)
        user == [name |-> req.name, email |-> req.email,
                 password |-> hashSync(req.password, salt)]
        made == createUser(user)
    IN IF errors # <<>> THEN Invalid(errors)
       ELSE IF dbFails \/ EmailTaken(user.email, 0)
       THEN CatchWithNext(<<"createUser">>, "None")
       ELSE Out(200, <<>>, NoToken, {made.data}, <<"createUser">>, "None",
                FALSE, made.store)

\* router.post("/login", userLoginValidator, async (req, res, next) => ...)
\* `errors` is read and never tested: the lookup runs whatever it holds.
LoginRoute(req, dbFails) ==
    LET errors == validationResult(LoginChain, req)
        calls == <<"getUserByEmail">>
        user == getUserByEmail(req.email)
    IN IF dbFails THEN CatchWithNext(calls, "None")
       ELSE IF user # NoUser
       THEN IF req.password = Absent
            THEN CatchWithNext(calls, "None")   \* compareSync throws on undefined
            ELSE IF compareSync(req.password, user.password)
            THEN IF secret = Absent
                 THEN CatchWithNext(calls, "None")  \* jwt.sign throws without a key
                 ELSE Out(200, <<>>, Issue(user.id), {user}, calls, "None",
                          FALSE, users)
            ELSE Out(404, <<"Invalid email or password">>, NoToken, {}, calls,
                     "None", FALSE, users)
       ELSE Out(404, errors, NoToken, {}, calls, "None", FALSE, users)

\* Variant: the test written if (!data), which an array never satisfies.
UpdateNotFoundTruthy(data) == FALSE
\* if (data[0] === 0): the update touched no row.
UpdateNotFound(data) == data[1] = 0

\* router.put("/:id", userUpdateValidator, async (req, res) => ...)
\* req.body goes to the controller as the client sent it.
UpdateUserRoute(req, dbFails) ==
    LET errors == validationResult(UpdateUserChain, req)
        auth == Authorize(UpdateUserChain, req)
        calls == <<"updateUser">>
        body == [name |-> req.name, email |-> req.email,
                 password |-> Raw(req.password)]
        done == updateUser(req.id, body)
    IN IF auth = "Rejected" THEN handleUnauthorized
       ELSE IF errors # <<>> THEN Invalid(errors)
       ELSE IF dbFails \/ (getUser(req.id) # NoUser /\ EmailTaken(req.email, req.id))
       THEN CatchWithoutNext(calls, auth)
       ELSE IF UpdateNotFound(done.data) THEN NotFound(calls, done.store)
       ELSE Out(200, <<>>, NoToken, {}, calls, auth, FALSE, done.store)

\* router.delete("/:id", idParamValidator, async (req, res) => ...)
DeleteUserRoute(req, dbFails) ==
    LET errors == validationResult(DeleteUserChain, req)
        auth == Authorize(DeleteUserChain, req)
        calls == <<"deleteUser">>
        done == deleteUser(req.id)
    IN IF auth = "Rejected" THEN handleUnauthorized
       ELSE IF errors # <<>> THEN Invalid(errors)
       ELSE IF dbFails THEN CatchWithoutNext(calls, auth)
       ELSE IF done.data = 0 THEN NotFound(calls, done.store)
       ELSE Out(200, <<>>, NoToken, {}, calls, auth, FALSE, done.store)

\* ---------------------------------------------------------------- requests
ReqIds == 0..MaxUsers
\* The bodies a client may send: the well-formed ones, and one breaking
\* every rule.
ValidBodies ==
    {[name |-> n, email |-> e, password |-> p] :
        n \in Names, e \in Emails, p \in Passwords}
InvalidBodies == {[name |-> Absent, email |-> BadEmail, password |-> Absent]}
ReqBodies == ValidBodies \cup InvalidBodies
ReqEmails == Emails \cup {BadEmail}
ReqPasswords == Passwords \cup {WrongPassword, Absent}
\* The tokens a client may present: none, the one it was issued, that one
\* with its claim altered under the old signature, one signed with another key.
Tampered(tok) ==
    {[tok EXCEPT !.id = i] : i \in (1..MaxUsers) \ {tok.id}}
    \cup {[tok EXCEPT !.exp = tok.exp + ExpiresIn]}
Forged(tok) ==
    Tampered(tok)
    \cup {[id |-> 1, exp |-> now + ExpiresIn, sig |-> Mac("k2", 1, now + ExpiresIn)]}
ReqTokens == {NoToken, session.token} \cup Forged(session.token)

Observe(route, req, o) ==
    [route |-> route, req |-> req, status |-> o.status,
     errors |-> o.errors, token |-> o.token, exposed |-> o.exposed,
     calls |-> o.calls, auth |-> o.auth, threw |-> o.threw,
     existed |-> getUser(req.id) # NoUser, changed |-> o.store # users]

NoObservation ==
    [route |-> "none", req |-> NoRequest, status |-> 0,
     errors |-> <<>>, token |-> NoToken, exposed |-> {}, calls |-> <<>>, auth |-> "None",
     threw |-> FALSE, existed |-> FALSE, changed |-> FALSE]

Respond(route, req, o) ==
    /\ last' = Observe(route, req, o)
    /\ users' = o.store

\* ----------------------------------------------------------------- actions
Init ==
    /\ phase = "starting"
    /\ secret \in Secrets
    /\ dbUp = TRUE
    /\ users = {}
    /\ nextId = 1
    /\ now = 0
    /\ session = [token |-> NoToken, uid |-> 0, at |-> 0]
    /\ last = NoObservation

\* app.listen(port, ...): nothing before it reads the signing secret.
Listen ==
    /\ phase = "starting"
    /\ phase' = "listening"
    /\ UNCHANGED <<secret, dbUp, users, nextId, now, session, last>>

\* The persistence layer goes down, or comes back: while it is down every
\* controller call throws.  Like the passing of time, it puts the response
\* observed in the past: `last` is always a request handled at the present
\* `now` and `dbUp`.
Outage ==
    /\ dbUp' = ~dbUp
    /\ last' = NoObservation
    /\ UNCHANGED <<phase, secret, users, nextId, now, session>>

\* Time passes between requests; the response observed is then in the past.
Tick ==
    /\ now < MaxTime
    /\ now' = now + 1
    /\ last' = NoObservation
    /\ UNCHANGED <<phase, secret, dbUp, users, nextId, session>>

GetUsers ==
    /\ phase = "listening"
    /\ \E tok \in ReqTokens :
         LET req == [NoRequest EXCEPT !.token = tok]
         IN Respond("getUsers", req, GetUsersRoute(req, ~dbUp))
    /\ UNCHANGED <<phase, secret, dbUp, nextId, now, session>>

GetUser ==
    /\ phase = "listening"
    /\ \E id \in ReqIds :
         LET req == [NoRequest EXCEPT !.id = id]
         IN Respond("getUser", req, GetUserRoute(req, ~dbUp))
    /\ UNCHANGED <<phase, secret, dbUp, nextId, now, session>>

CreateUser ==
    /\ phase = "listening"
    /\ nextId <= MaxUsers
    /\ \E body \in ReqBodies, salt \in Salts :
         LET req == [NoRequest EXCEPT !.name = body.name, !.email = body.email,
                                      !.password = body.password]
             o == CreateUserRoute(req, salt, ~dbUp)
         IN /\ Respond("createUser", req, o)
            /\ nextId' = IF o.status = 200 THEN nextId + 1 ELSE nextId
    /\ UNCHANGED <<phase, secret, dbUp, now, session>>

Login ==
    /\ phase = "listening"
    /\ \E email \in ReqEmails, password \in ReqPasswords :
         LET req == [NoRequest EXCEPT !.email = email, !.password = password]
             o == LoginRoute(req, ~dbUp)
         IN /\ Respond("login", req, o)
            /\ session' = IF o.token # NoToken
                          THEN [token |-> o.token, uid |-> getUserByEmail(email).id,
                                at |-> now]
                          ELSE session
    /\ UNCHANGED <<phase, secret, dbUp, nextId, now>>

UpdateUser ==
    /\ phase = "listening"
    /\ \E id \in ReqIds, body \in ReqBodies, tok \in {NoToken, session.token} :
         LET req == [id |-> id, name |-> body.name, email |-> body.email,
                     password |-> body.password, token |-> tok]
         IN Respond("updateUser", req, UpdateUserRoute(req, ~dbUp))
    /\ UNCHANGED <<phase, secret, dbUp, nextId, now, session>>

DeleteUser ==
    /\ phase = "listening"
    /\ \E id \in ReqIds, tok \in {NoToken, session.token} :
         LET req == [NoRequest EXCEPT !.id = id, !.token = tok]
         IN Respond("deleteUser", req, DeleteUserRoute(req, ~dbUp))
    /\ UNCHANGED <<phase, secret, dbUp, nextId, now, session>>

\* The rejection a handler left unhandled: node 19 (the Dockerfile's) ends
\* the process on it unless a listener for unhandled rejections is installed,
\* in which case the process goes on and the request stays unanswered.
UnhandledRejection ==
    /\ phase = "listening"
    /\ last.threw /\ last.status = 0
    /\ phase' = "crashed"
    /\ last' = NoObservation
    /\ UNCHANGED <<secret, dbUp, users, nextId, now, session>>

Next ==
    \/ Listen
    \/ UnhandledRejection
    \/ Outage
    \/ Tick
    \/ GetUsers
    \/ GetUser
    \/ CreateUser
    \/ Login
    \/ UpdateUser
    \/ DeleteUser

Spec == Init /\ [][Next]_vars

\* ------------------------------------------------------------------ claims
ChainOf(route) ==
    CASE route = "getUsers" -> GetUsersChain
      [] route = "getUser" -> GetUserChain
      [] route = "createUser" -> CreateUserChain
      [] route = "login" -> LoginChain
      [] route = "updateUser" -> UpdateUserChain
      [] route = "deleteUser" -> DeleteUserChain
      [] OTHER -> <<>>
\* The validation result of the request observed, and whether the token it
\* carried is one verify accepts.
LastErrors == validationResult(ChainOf(last.route), last.req)
LastTokenValid == last.req.token # NoToken /\ Verify(last.req.token, now).ok

\* C1: a login with an email and a password, its lookup returning, is
\* answered 404 when no user has the email, 404 when the user exists and the
\* password does not match the stored hash, and 200 with a token and the
\* user when it matches.
C1_LoginStatus ==
    (last.route = "login" /\ last.req.password # Absent /\ dbUp) =>
        LET user == getUserByEmail(last.req.email)
            match == compareSync(last.req.password, user.password)
        IN /\ user = NoUser => last.status = 404
           /\ (user # NoUser /\ ~match) => last.status = 404
           /\ (user # NoUser /\ match) =>
                /\ last.status = 200
                /\ last.token # NoToken
                /\ last.exposed = {user}

\* C2: no user object in any response body carries a password field.
C2_NoPasswordInResponse ==
    \A u \in last.exposed : u.password = NoPassword

\* C3: on every route with a validator, a request whose validation result
\* is not empty gets a client-error status with the error list, and no
\* controller call runs for it.
C3_InvalidNeverReachesController ==
    (last.route \in {"createUser", "login", "getUser", "updateUser", "deleteUser"}
        /\ LastErrors # <<>>) =>
        /\ last.status \in 400..499
        /\ last.errors = LastErrors
        /\ last.calls = <<>>

\* C4: GET /api/users calls getUsers and answers 200 only for a token that
\* verify accepts; without one the request ends Rejected with 401 and no
\* controller call.
C4_GetUsersNeedsValidToken ==
    last.route = "getUsers" =>
        /\ (last.calls # <<>> \/ last.status = 200) => LastTokenValid
        /\ ~LastTokenValid =>
             /\ last.status = 401
             /\ last.auth = "Rejected"
             /\ last.calls = <<>>
\* An issued token, presented once it has expired, is rejected.
C4_ExpiredTokenRejected ==
    /\ last.route = "getUsers"
    /\ last.req.token = session.token
    /\ session.token # NoToken
    /\ now >= session.token.exp
    /\ last.status = 401

\* C5: no update or delete changes the credential store for a request that
\* carries no valid token.
C5_MutationNeedsValidToken ==
    (last.route \in {"updateUser", "deleteUser"} /\ last.changed) => LastTokenValid

\* C6: every request handled has received a response, and one whose
\* controller, persistence or hasher call failed has received a 500.
C6_FailureAnswered500 ==
    last.route # "none" =>
        /\ last.status # 0
        /\ last.threw => last.status = 500

\* C7: every password the credential store holds is a hash made by the
\* Password Hasher.
C7_StoredPasswordsAreHashes ==
    \A u \in users : u.password.alg = "bcrypt"

\* C8: the token issued at login for user U at time t carries U's id and
\* the expiration t + 1 hour; verify returns U for it before the expiration,
\* rejects it from the expiration on, and rejects every token whose
\* signature does not match, all with the one Rejected outcome.
C8_TokenLifetime ==
    session.token # NoToken =>
        LET tok == session.token
        IN /\ tok.id = session.uid
           /\ tok.exp = session.at + ExpiresIn
           /\ now < tok.exp => Verify(tok, now) = [ok |-> TRUE, id |-> session.uid]
           /\ now >= tok.exp => Verify(tok, now) = [ok |-> FALSE, id |-> 0]
           /\ \A f \in Forged(tok) : Verify(f, now) = [ok |-> FALSE, id |-> 0]
\* A token was issued and the clock has reached its expiration.
C8_IssuedTokenExpired ==
    /\ session.token # NoToken
    /\ session.uid \in 1..MaxUsers
    /\ now >= session.token.exp

\* C9: without a signing secret the process never listens, and no login
\* returns a token.
C9_NoSecretNoService ==
    secret = Absent =>
        /\ phase # "listening"
        /\ session.token = NoToken
        /\ last.token = NoToken

====
